---- MODULE Spec2Model ----
(***************************************************************************)
(* Neon drone dashboard (drone_neon_dashboard.py): one Streamlit script.   *)
(* Every run of the script draws one synthetic telemetry reading and       *)
(* renders it as a page: alert, controls, 3D wireframe, map, four gauges,  *)
(* metric readouts and a trend chart.                                      *)
(*                                                                         *)
(* Numbers are fixed point.  A field rounded to 2 decimals is held in      *)
(* hundredths (8.5 V = 850), lat/lon (6 decimals) in millionths.  The      *)
(* value a random.uniform call returns, before round(), lies on a grid     *)
(* Resolution times finer than the rounding unit.  Time is in              *)
(* milliseconds.                                                           *)
(***************************************************************************)
EXTENDS Integers, Sequences, FiniteSets, TLC

VARIABLES
    telemetry,      \* the module-level dict `telemetry` of the current run
    data,           \* the module-level DataFrame `data` (the trend series) of the current run
    noise,          \* the standard-normal draws np.random.normal used in the current run
    controls,       \* widget values of the session: slider, three toggles, Pause pressed
    page,           \* the elements the current run wrote to the page
    now,            \* the wall clock (pd.Timestamp.now()) at the last run
    renders,        \* number of runs of the script so far
    samplerCalls    \* number of calls of generate_telemetry so far

vars == <<telemetry, data, noise, controls, page, now, renders, samplerCalls>>

----------------------------------------------------------------------------
(* Bounds of the model *)

\* raw grid steps per rounding unit of a uniform draw
Resolution == 4
\* draws are enumerated within Edge raw steps of the ends of a range (and of the alert threshold)
Edge == 3
\* largest |z| of a standard-normal draw, in tenths
MaxZ == 2
\* number of distinct noise sequences enumerated
NoiseSeeds == 2
\* last clock value at which the script still runs
MaxClock == 3

----------------------------------------------------------------------------
(* Program constants *)

\* periods=30 / size=30: points per trend column
periods == 30
\* freq="s": one second, in milliseconds
Second == 1000

Modes == <<"Auto", "Manual", "RTL", "Loiter">>

\* the arguments (a, b) of each random.uniform call, in the field's rounding unit,
\* and of the random.randint call
Args ==
    [ battery     |-> <<850, 1260>>,
      signal      |-> <<-90, -50>>,
      altitude    |-> <<10000, 25000>>,
      temperature |-> <<1800, 3000>>,
      pressure    |-> <<96000, 102500>>,
      roll        |-> <<-1000, 1000>>,
      pitch       |-> <<-3000, 3000>>,
      yaw         |-> <<0, 36000>>,
      lat         |-> <<29130000, 29140000>>,
      lon         |-> <<77220000, 77230000>>,
      speed       |-> <<500, 2500>> ]

UniformCalls ==
    {"battery", "altitude", "temperature", "pressure", "roll", "pitch",
     "yaw", "lat", "lon", "speed"}

\* every random call of one run: the twelve of generate_telemetry and the
\* np.random.normal draws of the trend (one entry: the sequence drawn)
Calls == UniformCalls \cup {"mode", "signal", "normal"}

----------------------------------------------------------------------------
(* The random module *)

\* random.choice(seq): the element at the drawn position
choice(seq, r) == seq[r]

\* random.randint(a, b): a + r for a drawn r in 0..b-a, both ends included
randint(range, r) == range[1] + r

\* random.uniform(a, b) = a + (b-a) * random(), random() in [0, 1): on the raw
\* grid, a*Resolution + r for a drawn r in 0 .. (b-a)*Resolution - 1
uniform(range, r) == range[1] * Resolution + r

\* round(x, ndigits): x on the raw grid to the nearest rounding unit, an exact
\* tie to the even neighbour
round_(x) ==
    LET q == x \div Resolution
        m == x % Resolution
    IN  IF 2 * m < Resolution THEN q
        ELSE IF 2 * m > Resolution THEN q + 1
        ELSE IF q % 2 = 0 THEN q ELSE q + 1

\* number of values a call can return on its grid
Span(f) ==
    IF f = "mode" THEN Len(Modes)
    ELSE IF f = "signal" THEN Args[f][2] - Args[f][1] + 1
    ELSE IF f = "normal" THEN NoiseSeeds
    ELSE (Args[f][2] - Args[f][1]) * Resolution

\* the draws of a call: 0 .. Span-1 (mode and normal: 1 .. Span)
First(f) == IF f \in {"mode", "normal"} THEN 1 ELSE 0
Last(f) == First(f) + Span(f) - 1

\* the draw of battery that is exactly the alert threshold 9.0
CriticalDraw == (900 - Args.battery[1]) * Resolution

\* points of a call's range around which draws are enumerated
Probes(f) ==
    IF f = "battery" THEN {First(f), CriticalDraw, Last(f)} ELSE {First(f), Last(f)}

Draws(f, e) ==
    IF f \in {"mode", "normal"} THEN First(f) .. Last(f)
    ELSE {r \in UNION {(p - e) .. (p + e) : p \in Probes(f)} :
             r >= First(f) /\ r <= Last(f)}

\* all calls return their lowest / their highest value
Base(profile) ==
    [f \in Calls |-> IF profile = "low" THEN First(f) ELSE Last(f)]

\* the outcomes of the random calls of one run that are enumerated: a base
\* profile, with one of the calls in `focus` drawn within e steps of a probe
Source(focus, e) ==
    {Base(p) : p \in {"low", "high"}} \cup
    UNION {UNION {{[Base(p) EXCEPT ![f] = r] : r \in Draws(f, e)} : f \in focus} :
              p \in {"low", "high"}}

FineSource == Source(Calls, Edge)
CoarseSource == Source({"battery"}, Edge)

----------------------------------------------------------------------------
(* Telemetry generator *)

\* faulty variant: roll drawn with the arguments of pitch
generate_telemetry_rollargs(u) ==
    [ mode        |-> choice(Modes, u.mode),
      battery     |-> round_(uniform(Args.battery, u.battery)),
      signal      |-> randint(Args.signal, u.signal),
      altitude    |-> round_(uniform(Args.altitude, u.altitude)),
      temperature |-> round_(uniform(Args.temperature, u.temperature)),
      pressure    |-> round_(uniform(Args.pressure, u.pressure)),
      roll        |-> round_(uniform(Args.pitch, u.roll)),
      pitch       |-> round_(uniform(Args.pitch, u.pitch)),
      yaw         |-> round_(uniform(Args.yaw, u.yaw)),
      lat         |-> round_(uniform(Args.lat, u.lat)),
      lon         |-> round_(uniform(Args.lon, u.lon)),
      speed       |-> round_(uniform(Args.speed, u.speed)) ]

generate_telemetry(u) ==
    [ mode        |-> choice(Modes, u.mode),
      battery     |-> round_(uniform(Args.battery, u.battery)),
      signal      |-> randint(Args.signal, u.signal),
      altitude    |-> round_(uniform(Args.altitude, u.altitude)),
      temperature |-> round_(uniform(Args.temperature, u.temperature)),
      pressure    |-> round_(uniform(Args.pressure, u.pressure)),
      roll        |-> round_(uniform(Args.roll, u.roll)),
      pitch       |-> round_(uniform(Args.pitch, u.pitch)),
      yaw         |-> round_(uniform(Args.yaw, u.yaw)),
      lat         |-> round_(uniform(Args.lat, u.lat)),
      lon         |-> round_(uniform(Args.lon, u.lon)),
      speed       |-> round_(uniform(Args.speed, u.speed)) ]

----------------------------------------------------------------------------
(* Trend series *)

abs(x) == IF x < 0 THEN -x ELSE x

\* the standard-normal draws of one run, in tenths: the sequence the generator
\* yields from state `seed`, 3 * periods values
Normals(seed) ==
    [k \in 1 .. 3 * periods |-> ((seed * k) % (2 * MaxZ + 1)) - MaxZ]

\* np.random.normal(loc, scale, size): loc + scale * z[i]; loc in hundredths,
\* scale and z in tenths
normal(loc, scale, z) == [i \in 1 .. Len(z) |-> loc + scale * z[i]]

\* faulty variant: the range starts at the given time instead of ending there
date_range_start(end, count, freq) == [i \in 1 .. count |-> end + (i - 1) * freq]

\* pd.date_range(end=end, periods=count, freq=freq)
date_range(end, count, freq) == [i \in 1 .. count |-> end - (count - i) * freq]

\* the DataFrame `data`: sigma 5, 1 and 1.5 are 50, 10 and 15 tenths
Trend(t, z, clock) ==
    [ Time        |-> date_range(clock, periods, Second),
      Altitude    |-> normal(t.altitude, 50, SubSeq(z, 1, periods)),
      Temperature |-> normal(t.temperature, 10, SubSeq(z, periods + 1, 2 * periods)),
      Speed       |-> normal(t.speed, 15, SubSeq(z, 2 * periods + 1, 3 * periods)) ]

----------------------------------------------------------------------------
(* Presentation *)

\* faulty variant: the alert also fires at exactly 9.0 V
Alert_atThreshold(t) == IF t.battery <= 900 THEN <<"Battery Critical!">> ELSE <<>>

\* st.error when the battery is below 9.0 V
Alert(t) == IF t.battery < 900 THEN <<"Battery Critical!">> ELSE <<>>

\* the values a user can give the widgets: the slider (0.5 .. 3.0, in tenths:
\* its ends and its default), the toggles, and whether Pause was clicked
SliderValues == {5, 10, 30}
ControlValues ==
    [speed : SliderValues, imu : BOOLEAN, gps : BOOLEAN, env : BOOLEAN, pause : BOOLEAN]
DefaultControls ==
    [speed |-> 10, imu |-> TRUE, gps |-> TRUE, env |-> FALSE, pause |-> FALSE]

\* the widgets of the Controls column; the script drops what they return
Controls(c) ==
    << [widget |-> "slider", label |-> "Simulation Speed", value |-> c.speed],
       [widget |-> "toggle", label |-> "IMU Sensor", value |-> c.imu],
       [widget |-> "toggle", label |-> "GPS Sensor", value |-> c.gps],
       [widget |-> "toggle", label |-> "Environmental Sensor", value |-> c.env],
       [widget |-> "button", label |-> "Pause", value |-> c.pause] >>

\* the 3D figure: the body marker and the four arms of the X
DroneView ==
    << [name |-> "Body", mode |-> "markers", x |-> <<0>>, y |-> <<0>>, z |-> <<0>>],
       [name |-> "Arm 1", mode |-> "lines", x |-> <<0, 1>>, y |-> <<0, 1>>, z |-> <<0, 0>>],
       [name |-> "Arm 2", mode |-> "lines", x |-> <<0, -1>>, y |-> <<0, 1>>, z |-> <<0, 0>>],
       [name |-> "Arm 3", mode |-> "lines", x |-> <<0, -1>>, y |-> <<0, -1>>, z |-> <<0, 0>>],
       [name |-> "Arm 4", mode |-> "lines", x |-> <<0, 1>>, y |-> <<0, -1>>, z |-> <<0, 0>>] >>

\* faulty variant: the pin's latitude and longitude swapped
Map_swapped(t) ==
    [ pins        |-> << [lat |-> t.lon, lon |-> t.lat] >>,
      coordinates |-> <<t.lat, t.lon>> ]

\* st.map of a one-row DataFrame, and the Coordinates line
Map(t) ==
    [ pins        |-> << [lat |-> t.lat, lon |-> t.lon] >>,
      coordinates |-> <<t.lat, t.lon>> ]

\* axis range [None, max_val]: plotly starts an indicator's axis at 0 when the
\* lower end is left open
create_gauge(value, title, max_val) ==
    [value |-> value, title |-> title, range |-> <<0, max_val>>]

\* faulty variant: the signal gauge shows the signed dBm value
Gauges_signed(t) ==
    << create_gauge(t.speed, "Speed (m/s)", 5000),
       create_gauge(t.altitude, "Altitude (m)", 30000),
       create_gauge(t.battery, "Battery (V)", 1300),
       create_gauge(t.signal, "Signal (dBm)", 100) >>

\* faulty variant: the altitude gauge ends at 200 m
Gauges_lowmax(t) ==
    << create_gauge(t.speed, "Speed (m/s)", 5000),
       create_gauge(t.altitude, "Altitude (m)", 20000),
       create_gauge(t.battery, "Battery (V)", 1300),
       create_gauge(abs(t.signal), "Signal (dBm)", 100) >>

\* the maxima 50, 300 and 13 are in hundredths, like the values shown
Gauges(t) ==
    << create_gauge(t.speed, "Speed (m/s)", 5000),
       create_gauge(t.altitude, "Altitude (m)", 30000),
       create_gauge(t.battery, "Battery (V)", 1300),
       create_gauge(abs(t.signal), "Signal (dBm)", 100) >>

\* the st.metric readouts; an f-string value is the number with its unit
Metrics(t) ==
    << [label |-> "Roll", value |-> <<t.roll>>],
       [label |-> "Pitch", value |-> <<t.pitch>>],
       [label |-> "Yaw", value |-> <<t.yaw>>],
       [label |-> "Temperature", value |-> <<t.temperature, "C">>],
       [label |-> "Pressure", value |-> <<t.pressure, " hPa">>],
       [label |-> "Flight Mode", value |-> <<t.mode>>] >>

\* the trend figure: three traces over data["Time"]
TrendChart(d) ==
    << [name |-> "Altitude", x |-> d.Time, y |-> d.Altitude],
       [name |-> "Temp", x |-> d.Time, y |-> d.Temperature],
       [name |-> "Speed", x |-> d.Time, y |-> d.Speed] >>

\* faulty variant: the GPS toggle wired to the map
RenderPage_gpsWired(t, c, d) ==
    [ alert    |-> Alert(t),
      controls |-> Controls(c),
      drone    |-> DroneView,
      map      |-> IF c.gps THEN Map(t) ELSE [pins |-> <<>>, coordinates |-> <<>>],
      gauges   |-> Gauges(t),
      metrics  |-> Metrics(t),
      chart    |-> TrendChart(d) ]

\* faulty variant: the arm tips lifted by the sampled roll and pitch
RenderPage_attitude(t, c, d) ==
    [ alert    |-> Alert(t),
      controls |-> Controls(c),
      drone    |-> [i \in 1 .. Len(DroneView) |->
                       IF i = 1 THEN DroneView[i]
                       ELSE [DroneView[i] EXCEPT !.z = <<0, t.roll + t.pitch>>]],
      map      |-> Map(t),
      gauges   |-> Gauges(t),
      metrics  |-> Metrics(t),
      chart    |-> TrendChart(d) ]

\* everything one run of the script writes to the page
RenderPage(t, c, d) ==
    [ alert    |-> Alert(t),
      controls |-> Controls(c),
      drone    |-> DroneView,
      map      |-> Map(t),
      gauges   |-> Gauges(t),
      metrics  |-> Metrics(t),
      chart    |-> TrendChart(d) ]

----------------------------------------------------------------------------
(* The script *)

\* faulty variant: the reading is cached: a rerun draws no new one
Script_cached(c, u, clock) ==
    LET reading == IF renders = 0 THEN generate_telemetry(u) ELSE telemetry
        z == Normals(u.normal)
        d == Trend(reading, z, clock)
    IN  /\ telemetry' = reading
        /\ samplerCalls' = IF renders = 0 THEN samplerCalls + 1 ELSE samplerCalls
        /\ noise' = z
        /\ data' = d
        /\ page' = RenderPage(reading, c, d)
        /\ controls' = c
        /\ now' = clock
        /\ renders' = renders + 1

\* one run of the script, top to bottom, at clock value clock, with widget
\* values c and the random calls returning u
Script(c, u, clock) ==
    LET reading == generate_telemetry(u)
        z == Normals(u.normal)
        d == Trend(reading, z, clock)
    IN  /\ telemetry' = reading
        /\ samplerCalls' = samplerCalls + 1
        /\ noise' = z
        /\ data' = d
        /\ page' = RenderPage(reading, c, d)
        /\ controls' = c
        /\ now' = clock
        /\ renders' = renders + 1

\* before the first run: an empty page, widgets at their defaults
Init ==
    /\ telemetry = <<>>
    /\ data = <<>>
    /\ noise = <<>>
    /\ controls = DefaultControls
    /\ page = <<>>
    /\ now = 0
    /\ renders = 0
    /\ samplerCalls = 0

\* the page is opened or reloaded: a new session, widgets at their defaults
Load(S) ==
    \E u \in S, clock \in (now + 1) .. MaxClock :
        Script(DefaultControls, u, clock)

\* the user moves the slider: the script reruns with the new value
SetSlider(S) ==
    /\ renders > 0
    /\ \E v \in SliderValues \ {controls.speed}, u \in S, clock \in (now + 1) .. MaxClock :
           Script([controls EXCEPT !.speed = v, !.pause = FALSE], u, clock)

\* the user flips one of the three toggles
Toggle(S) ==
    /\ renders > 0
    /\ \E w \in {"imu", "gps", "env"}, u \in S, clock \in (now + 1) .. MaxClock :
           Script([controls EXCEPT ![w] = ~controls[w], !.pause = FALSE], u, clock)

\* the user clicks Pause: st.button returns True in the run the click starts
PressPause(S) ==
    /\ renders > 0
    /\ \E u \in S, clock \in (now + 1) .. MaxClock :
           Script([controls EXCEPT !.pause = TRUE], u, clock)

Next ==
    \/ Load(CoarseSource)
    \/ SetSlider(CoarseSource)
    \/ Toggle(CoarseSource)
    \/ PressPause(CoarseSource)

\* a session whose user may touch every control
Spec == Init /\ [][Next]_vars

NextSampling == Load(FineSource)

\* page loads only, the random calls enumerated around every end of every range
SpecSampling == Init /\ [][NextSampling]_vars

----------------------------------------------------------------------------
(* Properties *)

rendered == renders > 0

\* C1: every field of a reading other than yaw lies in its closed domain after
\* rounding: mode one of the four modes, battery in [8.5, 12.6], signal in
\* [-90, -50], altitude in [100, 250], temperature in [18, 30], pressure in
\* [960, 1025], roll in [-10, 10], pitch in [-30, 30], lat in [29.13, 29.14],
\* lon in [77.22, 77.23], speed in [5, 25].
TelemetryInDomain ==
    rendered =>
        /\ telemetry.mode \in {"Auto", "Manual", "RTL", "Loiter"}
        /\ telemetry.battery \in 850 .. 1260
        /\ telemetry.signal \in -90 .. -50
        /\ telemetry.altitude \in 10000 .. 25000
        /\ telemetry.temperature \in 1800 .. 3000
        /\ telemetry.pressure \in 96000 .. 102500
        /\ telemetry.roll \in -1000 .. 1000
        /\ telemetry.pitch \in -3000 .. 3000
        /\ telemetry.lat \in 29130000 .. 29140000
        /\ telemetry.lon \in 77220000 .. 77230000
        /\ telemetry.speed \in 500 .. 2500

\* a reading whose battery was rounded up onto the closed end 12.6 while lat
\* sits on its lower end
BatteryRoundedOntoUpperEnd ==
    /\ rendered
    /\ telemetry.battery = 1260
    /\ telemetry.lat = 29130000

\* C2: yaw of every reading is in [0, 360): at least 0 and strictly below 360
\* after the rounding to 2 decimals.
YawHalfOpen ==
    rendered => (telemetry.yaw >= 0 /\ telemetry.yaw < 36000)

\* C3: the 'Battery Critical!' alert is on the page exactly when the reading's
\* battery is strictly below 9.0, whatever the other fields are.
AlertIffBatteryBelowNine ==
    rendered =>
        /\ Len(page.alert) <= 1
        /\ (page.alert = <<"Battery Critical!">>) <=> (telemetry.battery < 900)

\* a reading of 8.99 V, the largest below the threshold, raised the alert
AlertJustBelowNine ==
    /\ rendered
    /\ telemetry.battery = 899
    /\ page.alert = <<"Battery Critical!">>

\* C4: the signal gauge shows |signal| of the run's reading, a value in [50, 90].
SignalGaugeIsAbs ==
    rendered =>
        LET shown == page.gauges[4].value
        IN  /\ shown >= 0
            /\ shown = telemetry.signal \/ shown = -telemetry.signal
            /\ shown \in 50 .. 90

\* the weakest signal, -90 dBm, shown as 90
SignalGaugeAtNinety ==
    /\ rendered
    /\ telemetry.signal = -90
    /\ page.gauges[4].value = 90

\* C5: the trend series has exactly 30 points in each of its four columns, its
\* timestamps are strictly increasing, consecutive ones exactly 1 second
\* apart, and the last one is the generation time.
TrendShape ==
    rendered =>
        /\ Len(data.Time) = 30
        /\ Len(data.Altitude) = 30
        /\ Len(data.Temperature) = 30
        /\ Len(data.Speed) = 30
        /\ \A i \in 1 .. 29 :
               /\ data.Time[i] < data.Time[i + 1]
               /\ data.Time[i + 1] - data.Time[i] = 1000
        /\ data.Time[30] = now

\* a rerun at a later time built a 30-point series ending at that time, with
\* values that differ from point to point
TrendOfARerun ==
    /\ renders >= 2
    /\ Len(data.Time) = 30
    /\ data.Time[30] = now
    /\ data.Time[1] = now - 29000
    /\ data.Altitude[1] # data.Altitude[2]

\* C6: the gauges have the fixed domains [0, 50] (speed), [0, 300] (altitude),
\* [0, 13] (battery) and [0, 100] (|signal|), and the value of every gauge
\* lies inside its domain.
GaugesWithinDomain ==
    rendered =>
        /\ Len(page.gauges) = 4
        /\ page.gauges[1].range = <<0, 5000>>
        /\ page.gauges[2].range = <<0, 30000>>
        /\ page.gauges[3].range = <<0, 1300>>
        /\ page.gauges[4].range = <<0, 100>>
        /\ \A g \in 1 .. 4 :
               /\ page.gauges[g].value >= page.gauges[g].range[1]
               /\ page.gauges[g].value <= page.gauges[g].range[2]

\* the highest altitude, 250 m, on the altitude gauge, below its end 300
AltitudeGaugeAtMaximum ==
    /\ rendered
    /\ telemetry.altitude = 25000
    /\ page.gauges[2].value = 25000
    /\ page.gauges[2].value < page.gauges[2].range[2]

\* what C7 says of the page but for the number of metric readouts
LayoutBesidesMetrics ==
    /\ Len(page.alert) \in {0, 1}
    /\ Len(page.map.pins) = 1
    /\ page.map.pins[1] = [lat |-> telemetry.lat, lon |-> telemetry.lon]
    /\ Len(page.gauges) = 4
    /\ Len(page.chart) = 3
    /\ \A k \in 1 .. Len(page.chart) : Len(page.chart[k].y) = Len(page.chart[k].x)
    /\ \A i, j \in 1 .. Len(page.metrics) :
           page.metrics[i].label = page.metrics[j].label => i = j

\* C7 as stated: every page has one map with a single pin at (lat, lon), four
\* gauges, eight labeled metric readouts and one chart of three series.
PageLayoutEightMetrics ==
    rendered => (LayoutBesidesMetrics /\ Len(page.metrics) = 8)

\* C7 as amended: every page has one map with a single pin at (lat, lon), four
\* gauges, six labeled metric readouts (Roll, Pitch, Yaw, Temperature,
\* Pressure, Flight Mode) and one chart of three series; only the alert is
\* present on some pages and absent on others.
PageLayoutSixMetrics ==
    rendered =>
        /\ LayoutBesidesMetrics
        /\ Len(page.metrics) = 6
        /\ {page.metrics[i].label : i \in 1 .. 6} =
               {"Roll", "Pitch", "Yaw", "Temperature", "Pressure", "Flight Mode"}

\* a page with the alert on it and the full layout
FullLayoutWithAlert ==
    /\ rendered
    /\ Len(page.alert) = 1
    /\ Len(page.map.pins) = 1
    /\ Len(page.gauges) = 4
    /\ Len(page.metrics) = 6
    /\ Len(page.chart) = 3

\* the page without its Controls column
Inert(p) ==
    [ alert |-> p.alert, drone |-> p.drone, map |-> p.map, gauges |-> p.gauges,
      metrics |-> p.metrics, chart |-> p.chart ]

\* C8: the controls are inert: the run's page, but for the control widgets
\* themselves, is the page the same reading and trend noise give under any
\* other slider value, toggle setting and Pause click.
ControlsInert ==
    rendered =>
        \A c \in ControlValues :
            Inert(page) = Inert(RenderPage(telemetry, c, data))

\* a run with the GPS toggle switched off and Pause just clicked still pinned the map
MapPinnedWithGpsOff ==
    /\ rendered
    /\ ~controls.gps
    /\ controls.pause
    /\ page.controls[3].value = FALSE
    /\ Len(page.map.pins) = 1

\* C9: the 3D wireframe is the same on every page: the body at the origin and
\* four arms from the origin to (1,1,0), (-1,1,0), (-1,-1,0), (1,-1,0),
\* whatever roll, pitch, yaw and the other fields are.
WireframeFixed ==
    rendered =>
        /\ Len(page.drone) = 5
        /\ page.drone[1].x = <<0>> /\ page.drone[1].y = <<0>> /\ page.drone[1].z = <<0>>
        /\ <<page.drone[2].x, page.drone[2].y, page.drone[2].z>> = << <<0, 1>>, <<0, 1>>, <<0, 0>> >>
        /\ <<page.drone[3].x, page.drone[3].y, page.drone[3].z>> = << <<0, -1>>, <<0, 1>>, <<0, 0>> >>
        /\ <<page.drone[4].x, page.drone[4].y, page.drone[4].z>> = << <<0, -1>>, <<0, -1>>, <<0, 0>> >>
        /\ <<page.drone[5].x, page.drone[5].y, page.drone[5].z>> = << <<0, 1>>, <<0, -1>>, <<0, 0>> >>

\* a rerun whose reading has roll 10, pitch 30 and a nonzero yaw drew the flat X
FlatWireframeAtFullTilt ==
    /\ renders >= 2
    /\ telemetry.roll = 1000
    /\ telemetry.pitch = 3000
    /\ telemetry.yaw > 0
    /\ page.drone[2].z = <<0, 0>>

\* C10: every run calls the sampler exactly once, and the alert, the map pin,
\* the four gauge values, the metric readouts and the centers of the three
\* trend series of the page are those of the reading of that run.
PageFromTheRunsReading ==
    /\ samplerCalls = renders
    /\ rendered =>
        /\ (page.alert # <<>>) <=> (telemetry.battery < 900)
        /\ page.map.pins = << [lat |-> telemetry.lat, lon |-> telemetry.lon] >>
        /\ page.map.coordinates = <<telemetry.lat, telemetry.lon>>
        /\ page.gauges[1].value = telemetry.speed
        /\ page.gauges[2].value = telemetry.altitude
        /\ page.gauges[3].value = telemetry.battery
        /\ page.gauges[4].value = -telemetry.signal
        /\ [i \in 1 .. 6 |-> page.metrics[i].value[1]] =
               <<telemetry.roll, telemetry.pitch, telemetry.yaw,
                 telemetry.temperature, telemetry.pressure, telemetry.mode>>
        /\ \A i \in 1 .. 30 :
               /\ page.chart[1].y[i] = telemetry.altitude + 50 * noise[i]
               /\ page.chart[2].y[i] = telemetry.temperature + 10 * noise[30 + i]
               /\ page.chart[3].y[i] = telemetry.speed + 15 * noise[60 + i]

\* the third run of a session: three sampler calls, and a page showing the
\* reading of this run
ThirdRunShowsItsReading ==
    /\ renders = 3
    /\ samplerCalls = 3
    /\ page.gauges[2].value = telemetry.altitude
    /\ page.chart[1].y[1] # telemetry.altitude

====
